---- MODULE Spec2Model ----
(***************************************************************************)
(* Carpool service: the booking state machine (src/requests.py, mirrored   *)
(* by src/routers/trips.py) and the trip channel of the live-location hub  *)
(* (src/app/routers/ws.py, src/websocket_manager.py).                      *)
(*                                                                         *)
(* Every request runs in its own database session (src/database.py:20-22). *)
(* A handler suspends at each awaited database statement, so a handler is  *)
(* one action per awaited statement; the code between two awaits runs      *)
(* without interruption and belongs to the action of the await before it.  *)
(* A statement sees the rows committed when it runs; a commit writes the   *)
(* attributes the session changed, as the values the session computed.     *)
(***************************************************************************)
EXTENDS Integers, Sequences, FiniteSets, TLC

\* ---------------------------------------------------------------- bounds
MaxTrips == 1
MaxBookings == 2
MaxSeats == 2
MaxRouteRows == 2
MaxCatalog == 2
MaxSearches == 2

Users == {1, 2}
Procs == {"p1", "p2"}
\* BookingUpdate.status is any string: the two documented values and one other.
NewStatuses == {"confirmed", "rejected", "completed"}

TripIds == 1..MaxTrips
BookingIds == 1..MaxBookings

VARIABLES
    trips,           \* table trips: trip id -> row (ids are 1..Len)
    bookings,        \* table bookings: booking id -> row (ids are 1..Len)
    pc,              \* per request task: the await it is suspended at
    call,            \* per request task: the call it is in, with its arguments
    snap,            \* per request task: the rows its session has loaded
    res,             \* per request task: how its last call ended ("none" in a call)
    ever_confirmed,  \* history: booking ids that have been committed as confirmed
    trip_connections,  \* ConnectionManager: trip id -> list of websockets
    ws_pc,           \* per websocket: where its channel handler is
    ws_trip,         \* per websocket: the trip_id of its channel path
    ws_msg,          \* per websocket: the last location message it validated
    ws_end,          \* per websocket: what ended its handler
    driver_locations,  \* table driver_locations, in insertion order
    inbox,           \* per websocket: the events sent to it
    ws_due,          \* history: the subscribers when its sample was committed
    sock_state,      \* per websocket: connecting, connected or disconnected
    bc,              \* per broadcast_to_trip call: its loop over the subscribers
    left,            \* history: <<websocket, trip>> unsubscribed and not re-added
    started,         \* history: the broadcast_to_trip calls, in call order
    connect_err,     \* the last connect call that raised, and whether its
                     \* websocket was in the list of its trip
    route_cache,     \* table route_cache, in insertion order
    gr_pc,           \* per get_route task: the await it is suspended at
    gr_call,         \* per get_route task: its arguments and what it has so far
    gr_res,          \* per get_route task: what its last call returned or raised
    catalog,         \* table trips: the columns the search reads
    search           \* the last get_nearby_trips call and what it returned

bvars == <<trips, bookings, pc, call, snap, res, ever_confirmed>>

wvars == <<trip_connections, ws_pc, ws_trip, ws_msg, ws_end, driver_locations,
           inbox, ws_due>>

hvars == <<sock_state, bc, left, started, connect_err>>

gvars == <<route_cache, gr_pc, gr_call, gr_res, catalog, search>>

vars == <<bvars, wvars, hvars, gvars>>

\* ------------------------------------------------------------ row shapes
NoCall ==
    [op |-> "none", trip_id |-> 0, passenger_id |-> 0, booking_id |-> 0,
     driver_id |-> 0, new_status |-> "none"]

NoSnap ==
    [found |-> FALSE, trip_id |-> 0, seats_available |-> 0, t_status |-> "none",
     b_status |-> "none"]

\* How a call ends: "ok", or the error it raised. The four ValueErrors are told
\* apart by their messages (src/requests.py:113, 124, 159, 162);
\* scalar_one_or_none raises MultipleResultsFound.
Errors ==
    {"TripUnavailable", "AlreadyBooked", "BookingNotFound", "StatusChanged",
     "MultipleResultsFound"}

\* ---------------------------------------------------------- create_trip
\* Trip(...) of create_trip: seats_available starts at seats_total, status active.
NewTrip(driver_id, seats_total) ==
    [driver_id |-> driver_id, seats_total |-> seats_total,
     seats_available |-> seats_total, status |-> "active"]

\* create_trip: db.add(trip); await db.commit(). One awaited statement.
CreateTrip(p, driver_id, seats_total) ==
    /\ pc[p] = "idle"
    /\ Len(trips) < MaxTrips
    /\ trips' = Append(trips, NewTrip(driver_id, seats_total))
    /\ call' = [call EXCEPT ![p] = NoCall]
    /\ res' = [res EXCEPT ![p] = "ok"]
    /\ UNCHANGED <<bookings, pc, snap, ever_confirmed, wvars, hvars, gvars>>

\* -------------------------------------------------------- create_booking
\* select(Trip).where(Trip.id == trip_id, Trip.status == "active")
SelectActiveTrip(trip_id) ==
    IF trip_id \in DOMAIN trips /\ trips[trip_id].status = "active"
    THEN [NoSnap EXCEPT !.found = TRUE, !.trip_id = trip_id,
                        !.seats_available = trips[trip_id].seats_available,
                        !.t_status = trips[trip_id].status]
    ELSE NoSnap

\* if not trip or trip.seats_available <= 0 (mutant: the None test dropped)
TripUnavailableNoneUnchecked(t) == t.found /\ t.seats_available <= 0

TripUnavailable(t) == ~t.found \/ t.seats_available <= 0

\* Booking.status.in_(["pending", "confirmed"]) (mutant: pending left out)
ActiveStatusesConfirmedOnly == {"confirmed"}

ActiveStatuses == {"pending", "confirmed"}

\* select(Booking).where(trip_id, passenger_id, status in ActiveStatuses)
SelectExisting(trip_id, passenger_id) ==
    {b \in DOMAIN bookings :
        /\ bookings[b].trip_id = trip_id
        /\ bookings[b].passenger_id = passenger_id
        /\ bookings[b].status \in ActiveStatuses}

\* First await of create_booking: the trip query, then the availability test.
CbSelectTrip(p, trip_id, passenger_id) ==
    /\ pc[p] = "idle"
    /\ LET t == SelectActiveTrip(trip_id) IN
       IF TripUnavailable(t)
       THEN /\ res' = [res EXCEPT ![p] = "TripUnavailable"]
            /\ call' = [call EXCEPT ![p] = NoCall]
            /\ UNCHANGED <<pc, snap>>
       ELSE /\ pc' = [pc EXCEPT ![p] = "cb_select_existing"]
            /\ call' = [call EXCEPT ![p] = [NoCall EXCEPT !.op = "create_booking",
                                                  !.trip_id = trip_id,
                                                  !.passenger_id = passenger_id]]
            /\ snap' = [snap EXCEPT ![p] = t]
            /\ res' = [res EXCEPT ![p] = "none"]
    /\ UNCHANGED <<trips, bookings, ever_confirmed, wvars, hvars, gvars>>

\* Second await: the duplicate query; scalar_one_or_none raises on two rows.
CbSelectExisting(p) ==
    /\ pc[p] = "cb_select_existing"
    /\ LET rows == SelectExisting(call[p].trip_id, call[p].passenger_id) IN
       IF rows = {}
       THEN /\ pc' = [pc EXCEPT ![p] = "cb_commit"]
            /\ UNCHANGED <<call, snap, res>>
       ELSE /\ pc' = [pc EXCEPT ![p] = "idle"]
            /\ call' = [call EXCEPT ![p] = NoCall]
            /\ snap' = [snap EXCEPT ![p] = NoSnap]
            /\ res' = [res EXCEPT ![p] = IF Cardinality(rows) = 1
                                         THEN "AlreadyBooked"
                                         ELSE "MultipleResultsFound"]
    /\ UNCHANGED <<trips, bookings, ever_confirmed, wvars, hvars, gvars>>

\* Booking(trip_id=..., passenger_id=..., status="pending")
\* (mutant: the booking is created as confirmed)
NewBookingConfirmed(trip_id, passenger_id) ==
    [trip_id |-> trip_id, passenger_id |-> passenger_id, status |-> "confirmed"]

NewBooking(trip_id, passenger_id) ==
    [trip_id |-> trip_id, passenger_id |-> passenger_id, status |-> "pending"]

\* db.add(booking); await db.commit(); refresh.
CbCommit(p) ==
    /\ pc[p] = "cb_commit"
    /\ Len(bookings) < MaxBookings
    /\ bookings' = Append(bookings, NewBooking(call[p].trip_id, call[p].passenger_id))
    /\ pc' = [pc EXCEPT ![p] = "idle"]
    /\ snap' = [snap EXCEPT ![p] = NoSnap]
    /\ res' = [res EXCEPT ![p] = "ok"]
    /\ call' = [call EXCEPT ![p] = NoCall]
    /\ UNCHANGED <<trips, ever_confirmed, wvars, hvars, gvars>>

\* -------------------------------------------------- update_booking_status
\* select(Booking).join(Trip).where(Booking.id == id, Trip.driver_id == driver)
\* (mutant: the driver condition left out of the query)
SelectBookingAnyDriver(booking_id, driver_id) ==
    {b \in DOMAIN bookings : b = booking_id}

SelectBooking(booking_id, driver_id) ==
    {b \in DOMAIN bookings :
        /\ b = booking_id
        /\ trips[bookings[b].trip_id].driver_id = driver_id}

\* First await: the booking query of session.execute.
UbSelectBooking(p, booking_id, driver_id, new_status) ==
    /\ pc[p] = "idle"
    /\ IF SelectBooking(booking_id, driver_id) = {}
       THEN /\ res' = [res EXCEPT ![p] = "BookingNotFound"]
            /\ call' = [call EXCEPT ![p] = NoCall]
            /\ UNCHANGED <<pc, snap>>
       ELSE /\ pc' = [pc EXCEPT ![p] = "ub_selectin_trip"]
            /\ call' = [call EXCEPT ![p] = [NoCall EXCEPT !.op = "update_booking_status",
                                                  !.booking_id = booking_id,
                                                  !.driver_id = driver_id,
                                                  !.new_status = new_status]]
            /\ snap' = [snap EXCEPT ![p] =
                          [NoSnap EXCEPT !.found = TRUE,
                                         !.trip_id = bookings[booking_id].trip_id,
                                         !.b_status = bookings[booking_id].status]]
            /\ res' = [res EXCEPT ![p] = "none"]
    /\ UNCHANGED <<trips, bookings, ever_confirmed, wvars, hvars, gvars>>

\* selectinload(Booking.trip): the second statement of the same execute; then
\* the status test, which runs on the loaded booking before the next await.
UbSelectinTrip(p) ==
    /\ pc[p] = "ub_selectin_trip"
    /\ IF snap[p].b_status # "pending"
       THEN /\ pc' = [pc EXCEPT ![p] = "idle"]
            /\ call' = [call EXCEPT ![p] = NoCall]
            /\ snap' = [snap EXCEPT ![p] = NoSnap]
            /\ res' = [res EXCEPT ![p] = "StatusChanged"]
       ELSE /\ pc' = [pc EXCEPT ![p] = "ub_commit"]
            /\ snap' = [snap EXCEPT
                          ![p].seats_available = trips[snap[p].trip_id].seats_available,
                          ![p].t_status = trips[snap[p].trip_id].status]
            /\ UNCHANGED <<call, res>>
    /\ UNCHANGED <<trips, bookings, ever_confirmed, wvars, hvars, gvars>>

\* booking.trip.seats_available -= 1, on the value the session loaded
SeatsAfterConfirm(loaded) == loaded - 1

\* if booking.trip.seats_available <= 0: status = "filled" (mutant: < 0)
TripFilledStrict(seats) == seats < 0

TripFilled(seats) == seats <= 0

\* The UPDATE of trips that the commit flushes: the session's value of
\* seats_available, and status only when the session set it; no UPDATE when
\* new_status is not "confirmed" (mutant: the seat is taken whatever the
\* new status).
TripsAfterCommitAnyStatus(p) ==
    LET t == snap[p].trip_id
        n == SeatsAfterConfirm(snap[p].seats_available) IN
    [trips EXCEPT ![t].seats_available = n,
                  ![t].status = IF TripFilled(n) THEN "filled" ELSE @]

TripsAfterCommit(p) ==
    IF call[p].new_status = "confirmed"
    THEN LET t == snap[p].trip_id
             n == SeatsAfterConfirm(snap[p].seats_available) IN
         [trips EXCEPT ![t].seats_available = n,
                       ![t].status = IF TripFilled(n) THEN "filled" ELSE @]
    ELSE trips

\* The UPDATE of bookings: status, when it differs from the loaded value.
BookingsAfterCommit(p) ==
    IF call[p].new_status # snap[p].b_status
    THEN [bookings EXCEPT ![call[p].booking_id].status = call[p].new_status]
    ELSE bookings

\* await db.commit(); refresh.
UbCommit(p) ==
    /\ pc[p] = "ub_commit"
    /\ bookings' = BookingsAfterCommit(p)
    /\ trips' = TripsAfterCommit(p)
    /\ ever_confirmed' = IF call[p].new_status = "confirmed"
                         THEN ever_confirmed \cup {call[p].booking_id}
                         ELSE ever_confirmed
    /\ pc' = [pc EXCEPT ![p] = "idle"]
    /\ snap' = [snap EXCEPT ![p] = NoSnap]
    /\ res' = [res EXCEPT ![p] = "ok"]
    /\ call' = [call EXCEPT ![p] = NoCall]
    /\ UNCHANGED <<wvars, hvars, gvars>>

\* ------------------------------------------------------- specifications
InitBooking ==
    /\ trips = <<>>
    /\ bookings = <<>>
    /\ pc = [p \in Procs |-> "idle"]
    /\ call = [p \in Procs |-> NoCall]
    /\ snap = [p \in Procs |-> NoSnap]
    /\ res = [p \in Procs |-> "none"]
    /\ ever_confirmed = {}

\* ------------------------------------------------- the trip channel
Conns == {"c1", "c2", "c3"}
\* Trips that exist, as channel paths and as the trip_id of a payload.
WsTrips == {1, 2}
Lats == {43, 44}
Lons == {131}

NoMsg == [kind |-> "none", trip_id |-> 0, lat |-> 0, lon |-> 0]

\* What receive_json can hand the handler: a location message that
\* DriverLocationSchema accepts, one it rejects, a JSON object with another
\* action, and JSON that is no object.
LocationMessages ==
    {[kind |-> "location", trip_id |-> t, lat |-> la, lon |-> lo] :
        t \in WsTrips, la \in Lats, lo \in Lons}

Inbound ==
    LocationMessages \cup
    {[NoMsg EXCEPT !.kind = k] :
        k \in {"location_invalid", "other_action", "not_object"}}

\* ConnectionManager.connect: accept, create the list if absent, append.
Connect(websocket, trip_id) ==
    IF trip_id \in DOMAIN trip_connections
    THEN [trip_connections EXCEPT ![trip_id] = Append(@, websocket)]
    ELSE [t \in DOMAIN trip_connections \cup {trip_id} |->
            IF t = trip_id THEN <<websocket>> ELSE trip_connections[t]]

\* list.remove: the first occurrence (here the websocket is in the list).
RemoveFirst(list, x) ==
    LET i == CHOOSE k \in 1..Len(list) :
                 list[k] = x /\ \A j \in 1..(k - 1) : list[j] # x IN
    SubSeq(list, 1, i - 1) \o SubSeq(list, i + 1, Len(list))

\* ConnectionManager.disconnect: remove, and delete the key of an empty list
\* (mutant: the key is kept).
DisconnectKeepKey(websocket, trip_id) ==
    IF trip_id \in DOMAIN trip_connections
    THEN [trip_connections EXCEPT ![trip_id] = RemoveFirst(@, websocket)]
    ELSE trip_connections

Disconnect(websocket, trip_id) ==
    IF trip_id \in DOMAIN trip_connections
    THEN LET rest == RemoveFirst(trip_connections[trip_id], websocket) IN
         IF rest = <<>>
         THEN [t \in DOMAIN trip_connections \ {trip_id} |-> trip_connections[t]]
         ELSE [trip_connections EXCEPT ![trip_id] = rest]
    ELSE trip_connections

\* The websockets broadcast_to_trip iterates over for trip_id.
Subscribers(trip_id) ==
    IF trip_id \in DOMAIN trip_connections
    THEN {trip_connections[trip_id][i] : i \in 1..Len(trip_connections[trip_id])}
    ELSE {}

\* class DriverLocationSchema: its fields.
DriverLocationSchemaFields == {"trip_id", "lat", "lon"}

\* The attributes of loc the event dict reads: loc.lat, loc.lon, loc.timestamp.
EventReads == {"lat", "lon", "timestamp"}

\* Reading an attribute the schema does not declare raises AttributeError.
EventBuilds == EventReads \subseteq DriverLocationSchemaFields

\* The event a location message is meant to fan out.
Event(msg) == [type |-> "driver_location", lat |-> msg.lat, lon |-> msg.lon]

\* await manager.connect(websocket, trip_id)
WsConnect(c, trip_id) ==
    /\ ws_pc[c] = "new"
    /\ trip_connections' = Connect(c, trip_id)
    /\ ws_pc' = [ws_pc EXCEPT ![c] = "receive"]
    /\ ws_trip' = [ws_trip EXCEPT ![c] = trip_id]
    /\ UNCHANGED <<ws_msg, ws_end, driver_locations, inbox, ws_due, bvars, hvars, gvars>>

\* receive_json raises WebSocketDisconnect: the except clause disconnects.
WsClientDisconnect(c) ==
    /\ ws_pc[c] = "receive"
    /\ trip_connections' = Disconnect(c, ws_trip[c])
    /\ ws_pc' = [ws_pc EXCEPT ![c] = "ended"]
    /\ ws_end' = [ws_end EXCEPT ![c] = "WebSocketDisconnect"]
    /\ UNCHANGED <<ws_trip, ws_msg, driver_locations, inbox, ws_due, bvars, hvars, gvars>>

\* data = await receive_json(); action = data.get("action"); a location
\* message is validated and its DriverLocation added, up to await db.commit().
\* JSON that is no object has no get; a rejected message raises
\* ValidationError; neither is caught, so the handler ends still registered.
WsReceive(c, msg) ==
    /\ ws_pc[c] = "receive"
    /\ CASE msg.kind = "location" ->
              /\ ws_pc' = [ws_pc EXCEPT ![c] = "commit"]
              /\ ws_msg' = [ws_msg EXCEPT ![c] = msg]
              /\ UNCHANGED ws_end
         [] msg.kind = "other_action" ->
              UNCHANGED <<ws_pc, ws_msg, ws_end>>
         [] msg.kind = "location_invalid" ->
              /\ ws_pc' = [ws_pc EXCEPT ![c] = "ended"]
              /\ ws_end' = [ws_end EXCEPT ![c] = "ValidationError"]
              /\ UNCHANGED ws_msg
         [] msg.kind = "not_object" ->
              /\ ws_pc' = [ws_pc EXCEPT ![c] = "ended"]
              /\ ws_end' = [ws_end EXCEPT ![c] = "AttributeError"]
              /\ UNCHANGED ws_msg
    /\ UNCHANGED <<trip_connections, ws_trip, driver_locations, inbox, ws_due, bvars, hvars, gvars>>

\* db.add(DriverLocation(...)); await db.commit(): one row per location
\* message, whoever is subscribed (mutant: only when someone else listens).
SamplesAfterCommitIfSubscribed(c) ==
    IF Subscribers(ws_trip[c]) \ {c} = {}
    THEN driver_locations
    ELSE Append(driver_locations,
                [trip_id |-> ws_msg[c].trip_id,
                 lat |-> ws_msg[c].lat, lon |-> ws_msg[c].lon])

SamplesAfterCommit(c) ==
    Append(driver_locations,
           [trip_id |-> ws_msg[c].trip_id,
            lat |-> ws_msg[c].lat, lon |-> ws_msg[c].lon])

\* await db.commit() stores the sample under the payload's trip_id; then the
\* event dict is built for broadcast_to_trip(trip_id, ...), which raises
\* before the call: the handler ends, still registered, and nothing is sent.
WsCommit(c) ==
    /\ ws_pc[c] = "commit"
    /\ driver_locations' = SamplesAfterCommit(c)
    /\ ws_due' = [ws_due EXCEPT ![c] = Subscribers(ws_trip[c])]
    /\ IF EventBuilds
       THEN /\ ws_pc' = [ws_pc EXCEPT ![c] = "broadcast"]
            /\ UNCHANGED ws_end
       ELSE /\ ws_pc' = [ws_pc EXCEPT ![c] = "ended"]
            /\ ws_end' = [ws_end EXCEPT ![c] = "AttributeError"]
    /\ UNCHANGED <<trip_connections, ws_trip, ws_msg, inbox, bvars, hvars, gvars>>

InitWs ==
    /\ trip_connections = <<>>
    /\ ws_pc = [c \in Conns |-> "new"]
    /\ ws_trip = [c \in Conns |-> 0]
    /\ ws_msg = [c \in Conns |-> NoMsg]
    /\ ws_end = [c \in Conns |-> "none"]
    /\ driver_locations = <<>>
    /\ inbox = [c \in Conns |-> <<>>]
    /\ ws_due = [c \in Conns |-> {}]

\* ------------------------------------------- the registry by itself
\* ConnectionManager driven through its three methods: connect, disconnect
\* and broadcast_to_trip, each called with any websocket and any trip id. A
\* broadcast_to_trip call suspends at every send, so connects, disconnects and
\* other broadcasts run between two sends of one call.
Broadcasts == {"r1", "r2"}

\* The websockets the callers hold.
HubConns == {"c1", "c2"}

Events == {Event(m) : m \in LocationMessages}

NoBc ==
    [pc |-> "new", trip_id |-> 0, event |-> Event(NoMsg), idx |-> 0,
     live |-> FALSE, barred |-> {}, stay |-> {}, failed |-> FALSE]

\* await websocket.accept(): a websocket is accepted once; accept on a
\* websocket that is no longer connecting raises and connect stops there
\* (mutant: accept never raises).
AcceptNeverRaises(websocket) == FALSE

AcceptRaises(websocket) == sock_state[websocket] # "connecting"

NoConnect == [raised |-> "", registered |-> FALSE]

\* manager.connect(websocket, trip_id); when accept raises, the RuntimeError
\* leaves connect before the registry is touched.
HubConnect(c, trip_id) ==
    /\ IF AcceptRaises(c)
       THEN /\ connect_err' = [raised |-> "RuntimeError",
                               registered |-> c \in Subscribers(trip_id)]
            /\ UNCHANGED <<sock_state, trip_connections, ws_trip, left>>
       ELSE /\ sock_state' = [sock_state EXCEPT ![c] = "connected"]
            /\ trip_connections' = Connect(c, trip_id)
            /\ ws_trip' = [ws_trip EXCEPT ![c] = trip_id]
            /\ left' = left \ {<<c, trip_id>>}
            /\ UNCHANGED connect_err
    /\ UNCHANGED <<ws_pc, ws_msg, ws_end, driver_locations, inbox, ws_due,
                   bc, started, bvars, gvars>>

\* The peer closes the websocket: every later send on it raises.
HubClientClose(c) ==
    /\ sock_state[c] = "connected"
    /\ sock_state' = [sock_state EXCEPT ![c] = "disconnected"]
    /\ UNCHANGED <<bc, left, started, connect_err, wvars, bvars, gvars>>

\* manager.disconnect(websocket, trip_id) on a websocket in the trip's list:
\* it is removed, and the key is deleted with the last one. (For a trip
\* without a list the call does nothing; list.remove raises ValueError when
\* the websocket is not in the list, and nothing changes.) A broadcast that
\* iterates the list sees the removal; when the key is deleted the broadcast
\* keeps the old, empty list.
HubDisconnect(c, trip_id) ==
    /\ c \in Subscribers(trip_id)
    /\ trip_connections' = Disconnect(c, trip_id)
    /\ left' = left \cup {<<c, trip_id>>}
    /\ bc' = [r \in Broadcasts |->
                IF bc[r].pc = "sending" /\ bc[r].trip_id = trip_id /\ bc[r].live
                THEN [bc[r] EXCEPT !.stay = @ \ {c},
                                   !.live = trip_id \in DOMAIN trip_connections']
                ELSE bc[r]]
    /\ UNCHANGED <<sock_state, started, connect_err, ws_pc, ws_trip, ws_msg, ws_end,
                   driver_locations, inbox, ws_due, bvars, gvars>>

\* One turn of `for connection in self.trip_connections[trip_id]` for the call
\* whose loop state is b: the list iterator takes the element at its index,
\* or the loop ends; send_json delivers, or raises and `except: pass`
\* swallows it; the call then waits in that send.
BcIterate(r, b) ==
    IF b.live /\ b.idx <= Len(trip_connections[b.trip_id])
    THEN LET connection == trip_connections[b.trip_id][b.idx]
             sent == sock_state[connection] = "connected" IN
         /\ inbox' = IF sent
                     THEN [inbox EXCEPT ![connection] = Append(@, b.event)]
                     ELSE inbox
         /\ bc' = [bc EXCEPT ![r] = [b EXCEPT !.pc = "sending",
                                              !.idx = b.idx + 1,
                                              !.failed = b.failed \/ ~sent]]
    ELSE /\ bc' = [bc EXCEPT ![r] = [b EXCEPT !.pc = "done"]]
         /\ UNCHANGED inbox

\* manager.broadcast_to_trip(trip_id, message) is called: `if trip_id in
\* self.trip_connections`, then the first turn of the loop.
BcStart(r, trip_id, event) ==
    /\ bc[r].pc = "new"
    /\ started' = Append(started, r)
    /\ BcIterate(r, [NoBc EXCEPT
                       !.trip_id = trip_id,
                       !.event = event,
                       !.idx = 1,
                       !.live = trip_id \in DOMAIN trip_connections,
                       !.barred = {c \in Conns : <<c, trip_id>> \in left},
                       !.stay = Subscribers(trip_id)])
    /\ UNCHANGED <<sock_state, left, connect_err, trip_connections, ws_pc, ws_trip,
                   ws_msg, ws_end, driver_locations, ws_due, bvars, gvars>>

\* The awaited send returns: the next turn of the loop.
BcResume(r) ==
    /\ bc[r].pc = "sending"
    /\ BcIterate(r, bc[r])
    /\ UNCHANGED <<sock_state, left, started, connect_err, trip_connections, ws_pc,
                   ws_trip, ws_msg, ws_end, driver_locations, ws_due, bvars, gvars>>

InitHub ==
    /\ sock_state = [c \in Conns |-> "connecting"]
    /\ bc = [r \in Broadcasts |-> NoBc]
    /\ left = {}
    /\ started = <<>>
    /\ connect_err = NoConnect

\* ---------------------------------------------------------------------------
\* Route estimates (src/geo.py).  Latitudes and longitudes are in units of
\* 1e-4 degree, distances in centimetres, durations in 1e-5 minute, so that
\* the arithmetic of the code stays in the integers.  Every modelled point
\* lies on the meridian of the campus: with dlon = 0 the haversine formula
\* reduces to R * |dlat| (in radians), i.e. 6371 km * pi / 180 * 1e-4
\* = 1112 cm for each unit of latitude.
CmPerLatUnit == 1112
CampusLat == 430245
CampusLon == 1318927
NoPolyline == "None"

Abs(x) == IF x < 0 THEN 0 - x ELSE x

haversine(lat1, lon1, lat2, lon2) == CmPerLatUnit * Abs(lat2 - lat1)

RouteQueries ==
    {[from_lat |-> a, from_lon |-> CampusLon, to_lat |-> b, to_lon |-> CampusLon] :
        a \in {CampusLat, 430200}, b \in {430200, 430205}}

\* What the routing provider does with one request: a route of the expected
\* shape (a quick one or a slow one), a body without a usable route, a route
\* without the polyline key, a transport error, a body that is not JSON, a
\* JSON body that is not an object.
ProviderOutcomes ==
    {"route", "slow_route", "empty_routes", "no_routes_key", "no_polyline_key",
     "transport_error", "not_json", "json_not_object"}

\* distance in metres, duration in seconds, as the provider reports them
ProviderRoute(o) ==
    IF o = "route" THEN [distance |-> 1000, duration |-> 120, polyline |-> "poly"]
    ELSE [distance |-> 9000, duration |-> 2400, polyline |-> "poly"]

NoRoute == [distance_km |-> 0, duration_minutes |-> 0, polyline |-> NoPolyline]
NoQuery == [from_lat |-> 0, from_lon |-> 0, to_lat |-> 0, to_lon |-> 0]
NoRouteCall == [q |-> NoQuery, outcome |-> "", value |-> NoRoute]
NoRouteRes == [raised |-> "", q |-> NoQuery, outcome |-> "", value |-> NoRoute, hit |-> FALSE]

\* rows of route_cache selected by the four coordinates
CachedRows(cache, q) ==
    SelectSeq(cache, LAMBDA r : /\ r.from_lat = q.from_lat /\ r.from_lon = q.from_lon
                                /\ r.to_lat = q.to_lat /\ r.to_lon = q.to_lon)

RowValue(r) ==
    [distance_km |-> r.distance_km, duration_minutes |-> r.duration_minutes,
     polyline |-> r.polyline]

\* client.get and resp.json() stand outside the try block, and the handler of
\* the try block names KeyError and IndexError only
ProviderError(o) ==
    CASE o = "transport_error" -> "ConnectError"
      [] o = "not_json" -> "JSONDecodeError"
      [] o = "json_not_object" -> "TypeError"
      [] OTHER -> ""

Fallback(q) ==
    [distance_km |-> haversine(q.from_lat, q.from_lon, q.to_lat, q.to_lon),
     duration_minutes |-> haversine(q.from_lat, q.from_lon, q.to_lat, q.to_lon) * 2,
     polyline |-> NoPolyline]

\* the values get_route computes from the provider's answer
RouteValue(q, o) ==
    IF o \in {"route", "slow_route"}
    THEN [distance_km |-> ProviderRoute(o).distance * 100,
          duration_minutes |-> (ProviderRoute(o).duration * 100000) \div 60,
          polyline |-> ProviderRoute(o).polyline]
    ELSE Fallback(q)

CacheEntry(q, v) ==
    [from_lat |-> q.from_lat, from_lon |-> q.from_lon,
     to_lat |-> q.to_lat, to_lon |-> q.to_lon,
     distance_km |-> v.distance_km, duration_minutes |-> v.duration_minutes,
     polyline |-> v.polyline]

\* get_route, one action for each awaited statement.  A call that misses the
\* cache is admitted while the table has room for its row.
InFlight == Cardinality({p \in Procs : gr_pc[p] # "idle"})

GrSelectCache(p, q) ==
    /\ gr_pc[p] = "idle"
    /\ LET rows == CachedRows(route_cache, q) IN
       /\ rows = <<>> => Len(route_cache) + InFlight < MaxRouteRows
       /\ IF Len(rows) > 1
          THEN /\ gr_res' = [gr_res EXCEPT ![p] =
                     [NoRouteRes EXCEPT !.raised = "MultipleResultsFound", !.q = q]]
               /\ UNCHANGED <<gr_pc, gr_call>>
          ELSE IF Len(rows) = 1
          THEN /\ gr_res' = [gr_res EXCEPT ![p] =
                     [NoRouteRes EXCEPT !.q = q, !.value = RowValue(rows[1]), !.hit = TRUE]]
               /\ UNCHANGED <<gr_pc, gr_call>>
          ELSE /\ gr_pc' = [gr_pc EXCEPT ![p] = "provider"]
               /\ gr_call' = [gr_call EXCEPT ![p] = [NoRouteCall EXCEPT !.q = q]]
               /\ gr_res' = [gr_res EXCEPT ![p] = NoRouteRes]
    /\ UNCHANGED <<route_cache, catalog, search, bvars, wvars, hvars>>

GrProvider(p, o) ==
    /\ gr_pc[p] = "provider"
    /\ IF ProviderError(o) # ""
       THEN /\ gr_pc' = [gr_pc EXCEPT ![p] = "idle"]
            /\ gr_call' = [gr_call EXCEPT ![p] = NoRouteCall]
            /\ gr_res' = [gr_res EXCEPT ![p] =
                  [NoRouteRes EXCEPT !.raised = ProviderError(o), !.q = gr_call[p].q,
                                     !.outcome = o]]
       ELSE /\ gr_pc' = [gr_pc EXCEPT ![p] = "commit"]
            /\ gr_call' = [gr_call EXCEPT ![p] =
                  [q |-> gr_call[p].q, outcome |-> o, value |-> RouteValue(gr_call[p].q, o)]]
            /\ UNCHANGED gr_res
    /\ UNCHANGED <<route_cache, catalog, search, bvars, wvars, hvars>>

GrCommit(p) ==
    /\ gr_pc[p] = "commit"
    /\ route_cache' = Append(route_cache, CacheEntry(gr_call[p].q, gr_call[p].value))
    /\ gr_res' = [gr_res EXCEPT ![p] =
          [NoRouteRes EXCEPT !.q = gr_call[p].q, !.outcome = gr_call[p].outcome,
                           !.value = gr_call[p].value]]
    /\ gr_pc' = [gr_pc EXCEPT ![p] = "idle"]
    /\ gr_call' = [gr_call EXCEPT ![p] = NoRouteCall]
    /\ UNCHANGED <<catalog, search, bvars, wvars, hvars>>

\* ---------------------------------------------------------------------------
\* Search (src/crud.py, get_nearby_trips).  catalog is the trips table with
\* the columns the search reads, in the order of the rows; NullCoord is the
\* NULL of the nullable columns point_lat and point_lon, NoTime the None of
\* time_from and time_to, Now the value of datetime.now() during a search.
NullCoord == -1
NoTime == 0
Now == 2
max_distance_km == 5
max_deviation_minutes == 30

TripTypes == {"from_campus", "to_campus"}
PassengerLats == {10, 430200}
PointLats == {NullCoord, 0, 430205, 430209, 435200}

NewRow(status, trip_type, seats, departure, lat) ==
    [status |-> status, trip_type |-> trip_type, seats_available |-> seats,
     departure_time |-> departure, point_lat |-> lat,
     point_lon |-> IF lat = NullCoord THEN NullCoord ELSE CampusLon]

CatalogRows ==
    {NewRow("active", ty, 1, 3, lat) : ty \in TripTypes, lat \in PointLats}
      \cup {NewRow("filled", "to_campus", 1, 3, 430205),
            NewRow("active", "to_campus", 0, 3, 430205),
            NewRow("active", "to_campus", 1, 1, 430205),
            NewRow("active", "to_campus", 1, 5, 430205)}

SearchArgs ==
    {[lat |-> la, lon |-> CampusLon, trip_type |-> ty, time_from |-> w[1], time_to |-> w[2]] :
        la \in PassengerLats, ty \in TripTypes, w \in {<<NoTime, NoTime>>, <<3, 4>>}}

NoSearch ==
    [n |-> 0, args |-> [lat |-> 0, lon |-> 0, trip_type |-> "", time_from |-> NoTime,
                        time_to |-> NoTime],
     raised |-> "", table |-> <<>>, deviations |-> {}, result |-> <<>>]

StoreTrip(row) ==
    /\ Len(catalog) < MaxCatalog
    /\ catalog' = Append(catalog, [id |-> Len(catalog) + 1] @@ row)
    /\ UNCHANGED <<route_cache, gr_pc, gr_call, gr_res, search, bvars, wvars, hvars>>

\* get_route run from its call to its return
GetRoute(cache, q, o) ==
    LET rows == CachedRows(cache, q) IN
    IF Len(rows) > 1
    THEN [raised |-> "MultipleResultsFound", value |-> NoRoute, cache |-> cache]
    ELSE IF Len(rows) = 1
    THEN [raised |-> "", value |-> RowValue(rows[1]), cache |-> cache]
    ELSE IF ProviderError(o) # ""
    THEN [raised |-> ProviderError(o), value |-> NoRoute, cache |-> cache]
    ELSE [raised |-> "", value |-> RouteValue(q, o),
          cache |-> Append(cache, CacheEntry(q, RouteValue(q, o)))]

\* the rows the query of the search selects
AllTrips(a) ==
    SelectSeq(catalog, LAMBDA t :
        /\ t.status = "active"
        /\ t.trip_type = a.trip_type
        /\ t.seats_available > 0
        /\ t.departure_time >= Now
        /\ (a.time_from # NoTime => t.departure_time >= a.time_from)
        /\ (a.time_to # NoTime => t.departure_time <= a.time_to))

\* `if trip.point_lat and trip.point_lon`: None and 0.0 are both false
Truthy(x) == x # NullCoord /\ x # 0

\* distance <= max_distance_km, where distance is inf without coordinates
WithinDistance(a, trip) ==
    /\ Truthy(trip.point_lat)
    /\ Truthy(trip.point_lon)
    /\ haversine(a.lat, a.lon, trip.point_lat, trip.point_lon) <= max_distance_km * 100000

\* round(x, ndigits) of a value held in units of 1/unit: to the nearest
\* multiple, halves to the even one
RoundHalfEven(x, unit) ==
    LET d == x \div unit
        r == x % unit
    IN  IF 2 * r < unit THEN d
        ELSE IF 2 * r > unit THEN d + 1
        ELSE IF d % 2 = 0 THEN d ELSE d + 1

\* The three get_route calls of a from_campus candidate, in the order of the
\* code; the first one that raises ends the search.
Deviation(cache, a, trip, o) ==
    LET direct == GetRoute(cache, [from_lat |-> CampusLat, from_lon |-> CampusLon,
                                   to_lat |-> trip.point_lat, to_lon |-> trip.point_lon], o)
        via == GetRoute(direct.cache, [from_lat |-> CampusLat, from_lon |-> CampusLon,
                                       to_lat |-> a.lat, to_lon |-> a.lon], o)
        to_driver == GetRoute(via.cache, [from_lat |-> a.lat, from_lon |-> a.lon,
                                          to_lat |-> trip.point_lat,
                                          to_lon |-> trip.point_lon], o)
    IN  IF direct.raised # "" THEN [raised |-> direct.raised, minutes |-> 0, cache |-> cache]
        ELSE IF via.raised # ""
        THEN [raised |-> via.raised, minutes |-> 0, cache |-> direct.cache]
        ELSE IF to_driver.raised # ""
        THEN [raised |-> to_driver.raised, minutes |-> 0, cache |-> via.cache]
        ELSE [raised |-> "",
              minutes |-> (via.value.duration_minutes + to_driver.value.duration_minutes)
                            - direct.value.duration_minutes,
              cache |-> to_driver.cache]

\* `if trip_type == "from_campus"`: only these searches compute a detour
\* (mutant: every search does).
ComputesDetourAlways(trip_type) == TRUE

ComputesDetour(trip_type) == trip_type = "from_campus"

\* One turn of the loop over all_trips.  An entry of enriched carries the two
\* fields the code sets on the trip (distance_km in tenths of a kilometre,
\* deviation_minutes in minutes); deviations keeps the unrounded value of
\* deviation_minutes for every candidate within max_distance_km.
EnrichOne(acc, a, trip, o) ==
    IF acc.raised # "" \/ ~WithinDistance(a, trip) THEN acc
    ELSE LET dev == IF ComputesDetour(a.trip_type)
                    THEN Deviation(acc.cache, a, trip, o)
                    ELSE [raised |-> "", minutes |-> 0, cache |-> acc.cache]
         IN  IF dev.raised # ""
             THEN [acc EXCEPT !.raised = dev.raised, !.cache = dev.cache]
             ELSE IF dev.minutes > max_deviation_minutes * 100000
             THEN [acc EXCEPT !.cache = dev.cache,
                              !.deviations = @ \cup {[id |-> trip.id, minutes |-> dev.minutes]}]
             ELSE [acc EXCEPT
                     !.cache = dev.cache,
                     !.deviations = @ \cup {[id |-> trip.id, minutes |-> dev.minutes]},
                     !.enriched = Append(@,
                        [id |-> trip.id,
                         distance_km |-> RoundHalfEven(
                            haversine(a.lat, a.lon, trip.point_lat, trip.point_lon), 10000),
                         deviation_minutes |-> RoundHalfEven(dev.minutes, 100000)])]

RECURSIVE Enrich(_, _, _, _)
Enrich(all_trips, a, o, acc) ==
    IF all_trips = <<>> THEN acc
    ELSE Enrich(Tail(all_trips), a, o, EnrichOne(acc, a, Head(all_trips), o))

\* t.distance_km * 0.7 + t.deviation_minutes * 0.3, in hundredths
SortKey(t) == 7 * t.distance_km + 30 * t.deviation_minutes

RECURSIVE Insert(_, _)
Insert(s, x) ==
    IF s = <<>> THEN <<x>>
    ELSE IF SortKey(Head(s)) <= SortKey(x) THEN <<Head(s)>> \o Insert(Tail(s), x)
    ELSE <<x>> \o s

\* list.sort is stable: an entry goes behind the entries of equal key
RECURSIVE Sort(_)
Sort(s) ==
    IF s = <<>> THEN <<>>
    ELSE Insert(Sort(SubSeq(s, 1, Len(s) - 1)), s[Len(s)])

\* One search from its call to its return; o is what the provider does with
\* the requests of this search.  search keeps the arguments, the rows of the
\* table at the call and what the call returned.
GetNearbyTrips(a, o) ==
    /\ search.n < MaxSearches
    /\ LET all_trips == AllTrips(a)
           acc == Enrich(all_trips, a, o,
                         [raised |-> "", cache |-> route_cache, enriched |-> <<>>,
                          deviations |-> {}])
       IN  /\ route_cache' = acc.cache
           /\ search' = [n |-> search.n + 1, args |-> a, raised |-> acc.raised,
                         table |-> catalog,
                         deviations |-> acc.deviations,
                         result |-> IF acc.raised = "" THEN Sort(acc.enriched) ELSE <<>>]
    /\ UNCHANGED <<catalog, gr_pc, gr_call, gr_res, bvars, wvars, hvars>>

InitGeo ==
    /\ route_cache = <<>>
    /\ gr_pc = [p \in Procs |-> "idle"]
    /\ gr_call = [p \in Procs |-> NoRouteCall]
    /\ gr_res = [p \in Procs |-> NoRouteRes]
    /\ catalog = <<>>
    /\ search = NoSearch

Init == InitBooking /\ InitWs /\ InitHub /\ InitGeo

NextHub ==
    \/ \E c \in HubConns, t \in WsTrips : HubConnect(c, t)
    \/ \E c \in HubConns : HubClientClose(c)
    \/ \E c \in HubConns, t \in WsTrips : HubDisconnect(c, t)
    \/ \E r \in Broadcasts, t \in WsTrips, e \in Events : BcStart(r, t, e)
    \/ \E r \in Broadcasts : BcResume(r)

SpecHub == Init /\ [][NextHub]_vars

NextRoute ==
    \/ \E p \in Procs, q \in RouteQueries : GrSelectCache(p, q)
    \/ \E p \in Procs, o \in ProviderOutcomes : GrProvider(p, o)
    \/ \E p \in Procs : GrCommit(p)

SpecRoute == Init /\ [][NextRoute]_vars

\* Sequential use of get_route: a single task makes every call.
NextRouteSeq ==
    \/ \E q \in RouteQueries : GrSelectCache("p1", q)
    \/ \E o \in ProviderOutcomes : GrProvider("p1", o)
    \/ GrCommit("p1")

SpecRouteSeq == Init /\ [][NextRouteSeq]_vars

NextSearch ==
    \/ \E row \in CatalogRows : StoreTrip(row)
    \/ \E a \in SearchArgs, o \in ProviderOutcomes : GetNearbyTrips(a, o)

SpecSearch == Init /\ [][NextSearch]_vars

\* Searches of a passenger near the campus over trips that the query of the
\* search selects: the part of get_nearby_trips that computes the detours.
DetourRows ==
    {NewRow("active", ty, 1, 3, lat) : ty \in TripTypes, lat \in {430205, 430209, 435200}}

DetourArgs == {a \in SearchArgs : a.lat = 430200 /\ a.time_from = NoTime}

NextDetour ==
    \/ \E row \in DetourRows : StoreTrip(row)
    \/ \E a \in DetourArgs, o \in ProviderOutcomes : GetNearbyTrips(a, o)

SpecDetour == Init /\ [][NextDetour]_vars

\* The channel handlers of the websockets, interleaved at their awaits.
NextWs ==
    \/ \E c \in Conns, t \in WsTrips : WsConnect(c, t)
    \/ \E c \in Conns : WsClientDisconnect(c)
    \/ \E c \in Conns, m \in Inbound : WsReceive(c, m)
    \/ \E c \in Conns : WsCommit(c)

SpecWs == Init /\ [][NextWs]_vars

\* The steps of one request task.
Task(p) ==
    \/ \E d \in Users, n \in 1..MaxSeats : CreateTrip(p, d, n)
    \/ \E t \in TripIds, u \in Users : CbSelectTrip(p, t, u)
    \/ CbSelectExisting(p)
    \/ CbCommit(p)
    \/ \E b \in BookingIds, d \in Users, s \in NewStatuses :
          UbSelectBooking(p, b, d, s)
    \/ UbSelectinTrip(p)
    \/ UbCommit(p)

\* Concurrent requests: any task may take its next step.
Next == \E p \in Procs : Task(p)

Spec == Init /\ [][Next]_vars

\* Non-overlapping calls: a single task issues every request.
NextSeq == Task("p1")

SpecSeq == Init /\ [][NextSeq]_vars

\* The end-to-end run of one trip after another: each booking is created by a
\* passenger new to the trip and confirmed by the trip's driver before the
\* next is requested; once a trip has had seats_total confirmations, any
\* passenger may ask again.
ScPassengers == 1..(MaxSeats + 1)

ConfirmedOf(t) ==
    {b \in DOMAIN bookings : bookings[b].trip_id = t /\ bookings[b].status = "confirmed"}

BookingsOf(t) == {b \in DOMAIN bookings : bookings[b].trip_id = t}

NonePending == \A b \in DOMAIN bookings : bookings[b].status # "pending"

ScCreateTrip == \E d \in Users, n \in 1..MaxSeats : CreateTrip("p1", d, n)

ScBook ==
    \E t \in DOMAIN trips, u \in ScPassengers :
        /\ NonePending
        /\ \/ \A b \in BookingsOf(t) : bookings[b].passenger_id # u
           \/ Cardinality(ConfirmedOf(t)) = trips[t].seats_total
        /\ CbSelectTrip("p1", t, u)

ScConfirm ==
    \E b \in DOMAIN bookings :
        /\ bookings[b].status = "pending"
        /\ UbSelectBooking("p1", b, trips[bookings[b].trip_id].driver_id, "confirmed")

NextScenario ==
    \/ ScCreateTrip
    \/ ScBook
    \/ CbSelectExisting("p1")
    \/ CbCommit("p1")
    \/ ScConfirm
    \/ UbSelectinTrip("p1")
    \/ UbCommit("p1")

SpecScenario == Init /\ [][NextScenario]_vars

\* ------------------------------------------------------------ vocabulary
\* Task p takes a step.
Acted(p) == <<pc[p], call[p], res[p]>> # <<pc'[p], call'[p], res'[p]>>

\* Passenger u has a booking on trip t that is pending or confirmed.
HoldsBooking(t, u) ==
    \E b \in DOMAIN bookings :
        /\ bookings[b].trip_id = t
        /\ bookings[b].passenger_id = u
        /\ bookings[b].status \in {"pending", "confirmed"}

\* Trip id t names an active trip with a seat left.
TripOpen(t) ==
    /\ t \in DOMAIN trips
    /\ trips[t].status = "active"
    /\ trips[t].seats_available # 0

\* The bookings of trip t that have ever been committed as confirmed.
EverConfirmedOf(t) == {b \in ever_confirmed : bookings[b].trip_id = t}

\* ------------------------------------------------------------------ claims
\* C1: under any interleaving of concurrent create_booking and
\* update_booking_status calls, the number of bookings of a trip that ever
\* reach status confirmed is at most the trip's seats_total.
C1_ConfirmedAtMostSeats ==
    \A t \in DOMAIN trips :
        Cardinality(EverConfirmedOf(t)) <= trips[t].seats_total

\* C2: after any sequence of non-overlapping calls every trip has
\* 0 <= seats_available <= seats_total.
C2_SeatsWithinTotal ==
    \A t \in DOMAIN trips :
        /\ 0 <= trips[t].seats_available
        /\ trips[t].seats_available <= trips[t].seats_total

\* C3: with non-overlapping calls, a create_booking whose passenger already
\* holds a pending or confirmed booking on the trip ends at its duplicate
\* query with an error and inserts no booking; a create_booking reaches its
\* insert only when the passenger holds none.
C3_DuplicateBookingRejected ==
    [][\A p \in Procs :
         /\ ( /\ pc[p] = "cb_select_existing"
              /\ Acted(p)
              /\ HoldsBooking(call[p].trip_id, call[p].passenger_id) )
            => /\ pc'[p] = "idle"
               /\ res'[p] \in Errors
               /\ bookings' = bookings
         /\ (pc[p] = "cb_commit" /\ Acted(p))
            => ~HoldsBooking(call[p].trip_id, call[p].passenger_id)]_vars

\* C3 witness: a create_booking has just been refused as a duplicate on a trip
\* that is still active with a seat left.
C3_Witness ==
    /\ pc["p1"] = "idle"
    /\ res["p1"] = "AlreadyBooked"
    /\ \E t \in DOMAIN trips, u \in Users : TripOpen(t) /\ HoldsBooking(t, u)

\* C4: in every reachable state, under any interleaving of concurrent
\* create_booking calls, each (trip, passenger) pair has at most one booking
\* whose status is pending or confirmed.
C4_OneActiveBookingPerPair ==
    \A t \in DOMAIN trips, u \in Users :
        Cardinality({b \in DOMAIN bookings :
                        /\ bookings[b].trip_id = t
                        /\ bookings[b].passenger_id = u
                        /\ bookings[b].status \in {"pending", "confirmed"}}) <= 1

\* C5: a create_booking gets past its trip query only when the trip exists, is
\* active and has seats_available other than 0; otherwise it ends there with
\* an error, and the step that ends it changes no booking and no trip.
C5_UnavailableTripRejected ==
    [][\A p \in Procs :
         /\ (pc[p] = "idle" /\ pc'[p] = "cb_select_existing")
            => TripOpen(call'[p].trip_id)
         /\ (Acted(p) /\ res'[p] = "TripUnavailable")
            => /\ pc[p] = "idle"
               /\ pc'[p] = "idle"
               /\ bookings' = bookings
               /\ trips' = trips]_vars

\* C5 witness: a create_booking has just been refused while every trip id
\* names a trip that is filled with no seat left.
C5_Witness ==
    /\ res["p1"] = "TripUnavailable"
    /\ Len(trips) = MaxTrips
    /\ \A t \in DOMAIN trips :
          trips[t].status = "filled" /\ trips[t].seats_available = 0

\* C6: an update_booking_status call that returns while its booking is not
\* pending returns an error and changes no booking and no trip; no booking
\* leaves rejected or completed; no booking that is confirmed is confirmed
\* again.
C6_NonPendingUpdateRejected ==
    [][/\ \A p \in Procs :
            ( /\ call[p].op = "update_booking_status"
              /\ Acted(p)
              /\ pc'[p] = "idle"
              /\ bookings[call[p].booking_id].status # "pending" )
            => /\ res'[p] \in Errors
               /\ bookings' = bookings
               /\ trips' = trips
       /\ \A b \in DOMAIN bookings :
            bookings[b].status \in {"rejected", "completed"}
            => bookings'[b].status = bookings[b].status
       /\ \A b \in DOMAIN bookings, p \in Procs :
            bookings[b].status = "confirmed"
            => ~( /\ pc[p] = "ub_commit"
                  /\ Acted(p)
                  /\ call[p].booking_id = b
                  /\ call[p].new_status = "confirmed" )]_vars

\* C7: an update_booking_status gets past its booking query only when the
\* booking exists and the caller is the driver of its trip; otherwise it ends
\* there with an error, and the step that ends it changes no booking and no
\* trip; a booking leaves pending only in the commit of a call made by the
\* driver of its trip.
C7_OnlyTripDriverUpdates ==
    [][/\ \A p \in Procs :
            /\ (pc[p] = "idle" /\ pc'[p] = "ub_selectin_trip")
               => /\ call'[p].booking_id \in DOMAIN bookings
                  /\ trips[bookings[call'[p].booking_id].trip_id].driver_id
                        = call'[p].driver_id
            /\ (Acted(p) /\ res'[p] = "BookingNotFound")
               => /\ pc[p] = "idle"
                  /\ pc'[p] = "idle"
                  /\ bookings' = bookings
                  /\ trips' = trips
       /\ \A b \in DOMAIN bookings :
            (bookings[b].status = "pending" /\ bookings'[b].status # "pending")
            => \E p \in Procs :
                  /\ pc[p] = "ub_commit"
                  /\ Acted(p)
                  /\ call[p].booking_id = b
                  /\ call[p].driver_id = trips[bookings[b].trip_id].driver_id]_vars

\* C7 witness: an update_booking_status has just been refused although every
\* booking id names a booking, one of them still pending: the caller was not
\* the driver of the booking's trip.
C7_Witness ==
    /\ res["p1"] = "BookingNotFound"
    /\ Len(bookings) = MaxBookings
    /\ \E b \in DOMAIN bookings : bookings[b].status = "pending"

\* C8: the commit of an update_booking_status to confirmed on a pending
\* booking sets the booking to confirmed and lowers its trip's seats_available
\* by exactly 1; the trip is filled if the result is 0 and active if it is
\* greater than 0.
C8_ConfirmTakesOneSeat ==
    [][\A p \in Procs :
         ( /\ pc[p] = "ub_commit"
           /\ Acted(p)
           /\ call[p].new_status = "confirmed"
           /\ bookings[call[p].booking_id].status = "pending" )
         => LET b == call[p].booking_id
                t == bookings[b].trip_id IN
            /\ bookings'[b].status = "confirmed"
            /\ trips'[t].seats_available = trips[t].seats_available - 1
            /\ trips'[t].seats_available = 0 => trips'[t].status = "filled"
            /\ trips'[t].seats_available > 0 => trips'[t].status = "active"]_vars

\* C9: in the end-to-end run a trip with seats_total = N and k confirmed
\* bookings has seats_available = N - k; it is active while k < N and filled
\* with no seat left once k = N, and from then on no create_booking on it gets
\* past its trip query and it gains no booking.
C9_FillsAfterNConfirmations ==
    \A t \in DOMAIN trips :
        LET N == trips[t].seats_total
            k == Cardinality(ConfirmedOf(t)) IN
        /\ k <= N
        /\ trips[t].seats_available = N - k
        /\ k < N => trips[t].status = "active"
        /\ k = N => /\ trips[t].status = "filled"
                    /\ Cardinality(BookingsOf(t)) = N
                    /\ ~( /\ pc["p1"] \in {"cb_select_existing", "cb_commit"}
                          /\ call["p1"].trip_id = t )

\* C9 witness: a trip of MaxSeats seats has had all of them confirmed, every
\* trip is filled, and a create_booking has just been refused.
C9_Witness ==
    /\ res["p1"] = "TripUnavailable"
    /\ Len(trips) = MaxTrips
    /\ \A t \in DOMAIN trips : trips[t].status = "filled"
    /\ \E t \in DOMAIN trips :
          /\ trips[t].seats_total = MaxSeats
          /\ Cardinality(ConfirmedOf(t)) = MaxSeats

\* C10: once a handler has committed the sample of a location message and
\* left the branch, the sample is stored and every connection that was
\* subscribed to the handler's trip has received the driver_location event
\* with the message's lat and lon.
C10_LocationIsBroadcast ==
    \A c \in Conns :
        (ws_msg[c] # NoMsg /\ ws_pc[c] \notin {"commit", "broadcast"})
        => /\ \E i \in 1..Len(driver_locations) :
                 /\ driver_locations[i].lat = ws_msg[c].lat
                 /\ driver_locations[i].lon = ws_msg[c].lon
           /\ \A d \in ws_due[c] :
                 \E i \in 1..Len(inbox[d]) : inbox[d][i] = Event(ws_msg[c])

\* C13: whenever a connection's channel handler has ended, for whatever
\* reason, the connection is no longer among the subscribers of its trip.
C13_EndedHandlerUnsubscribed ==
    \A c \in Conns :
        ws_pc[c] = "ended" => c \notin Subscribers(ws_trip[c])

\* C14: a malformed inbound message never ends the channel: no handler is
\* ended by the ValidationError of a rejected location message, and none by
\* the AttributeError of JSON that is no object (the handler had validated no
\* location message).
C14_MalformedMessageKeepsChannel ==
    \A c \in Conns :
        /\ ws_end[c] # "ValidationError"
        /\ ~(ws_end[c] = "AttributeError" /\ ws_msg[c] = NoMsg)

\* C19: when a handler commits the sample of a location message while nobody
\* else is subscribed to its trip, exactly one DriverLocation row is added,
\* carrying the message's trip_id, lat and lon.
C19_SamplePersistedWithoutSubscribers ==
    [][\A c \in Conns :
         ( /\ ws_pc[c] = "commit"
           /\ ws_pc'[c] # "commit"
           /\ Subscribers(ws_trip[c]) \ {c} = {} )
         => /\ Len(driver_locations') = Len(driver_locations) + 1
            /\ SubSeq(driver_locations', 1, Len(driver_locations)) = driver_locations
            /\ driver_locations'[Len(driver_locations')] =
                  [trip_id |-> ws_msg[c].trip_id,
                   lat |-> ws_msg[c].lat, lon |-> ws_msg[c].lon]]_vars

\* C19 witness: a handler has committed the sample of its location message
\* while it was the only subscriber of its trip, and the row is stored.
C19_Witness ==
    \E c \in Conns :
        /\ ws_msg[c] # NoMsg
        /\ ws_pc[c] = "ended"
        /\ ws_due[c] = {c}
        /\ Len(driver_locations) = 1
        /\ driver_locations[1].lat = ws_msg[c].lat

\* C20: a booking that leaves pending becomes confirmed or rejected and
\* nothing else, and every booking's status is one of pending, confirmed,
\* rejected, completed.
C20_PendingToConfirmedOrRejected ==
    [][\A b \in DOMAIN bookings :
         /\ (bookings[b].status = "pending" /\ bookings'[b].status # "pending")
            => bookings'[b].status \in {"confirmed", "rejected"}
         /\ bookings'[b].status \in
               {"pending", "confirmed", "rejected", "completed"}]_vars

\* The broadcast_to_trip call that makes a send in this step.
BcSends(r, c) ==
    /\ bc'[r] # bc[r]
    /\ bc'[r].pc = "sending"
    /\ bc'[r].idx # bc[r].idx \/ bc[r].pc = "new"
    /\ inbox'[c] # inbox[c]

C12_FailedSendDoesNotStopFanOut ==
    \A r \in Broadcasts :
        (bc[r].pc = "done" /\ bc[r].failed)
        => \A c \in bc[r].stay :
              sock_state[c] = "connected"
              => \E i \in 1..Len(inbox[c]) : inbox[c][i] = bc[r].event

\* C15: when two broadcasts for one trip carry different events, a websocket
\* that has received both has received the event of the broadcast called
\* first before the event of the other.
C15_DeliveredInReportOrder ==
    \A c \in Conns :
        (/\ Len(started) = 2
         /\ bc[started[1]].trip_id = bc[started[2]].trip_id
         /\ bc[started[1]].event # bc[started[2]].event
         /\ Len(inbox[c]) = 2)
        => inbox[c] = <<bc[started[1]].event, bc[started[2]].event>>

\* C16: when the provider fails or answers with a malformed body (no usable
\* route, a transport error, a body that is not the expected JSON), get_route
\* raises nothing, returns the straight-line distance, twice that distance as
\* the duration and no polyline, and stores a cache row holding these values.
ProviderFailed(o) == o \in ProviderOutcomes \ {"route", "slow_route"}

C16_ProviderFailureFallsBack ==
    [][\A p \in Procs :
          /\ (gr_pc[p] = "provider" /\ gr_pc'[p] = "idle")
                => ~ProviderFailed(gr_res'[p].outcome)
          /\ (gr_pc[p] = "provider" /\ gr_pc'[p] = "commit"
                /\ ProviderFailed(gr_call'[p].outcome))
                => gr_call'[p].value = Fallback(gr_call[p].q)
          /\ (gr_pc[p] = "commit" /\ gr_pc'[p] = "idle")
                => /\ gr_res'[p].raised = ""
                   /\ gr_res'[p].value = gr_call[p].value
                   /\ route_cache' = Append(route_cache,
                                            CacheEntry(gr_call[p].q, gr_call[p].value))]_vars

\* Vocabulary of the search claims: a search has returned; the ids it
\* returned; the straight-line distance of a trip to the passenger; the
\* detour get_nearby_trips computed for a trip (0 on a to_campus search).
Returned == search.n > 0 /\ search.raised = ""

ResultIds == {search.result[i].id : i \in DOMAIN search.result}

CoordinatesPresent(t) == t.point_lat # NullCoord /\ t.point_lon # NullCoord

DistanceTo(t) == haversine(search.args.lat, search.args.lon, t.point_lat, t.point_lon)

DetourKnown(id) ==
    search.args.trip_type = "to_campus" \/ \E d \in search.deviations : d.id = id

DetourOf(id) ==
    IF search.args.trip_type = "to_campus" THEN 0
    ELSE (CHOOSE d \in search.deviations : d.id = id).minutes

MeetsQuery(t) ==
    /\ t.status = "active"
    /\ t.trip_type = search.args.trip_type
    /\ t.seats_available > 0
    /\ t.departure_time >= Now
    /\ (search.args.time_from # NoTime => t.departure_time >= search.args.time_from)
    /\ (search.args.time_to # NoTime => t.departure_time <= search.args.time_to)

\* C17: a search returns exactly the trips that are active, of the requested
\* type, with a free seat, departing now or later and inside the requested
\* window, with coordinates present, within max_distance_km of the passenger
\* and, on a from_campus search, with a detour of at most
\* max_deviation_minutes: every returned trip meets the conditions, and no
\* trip meeting them is left out, whatever its coordinate values.
C17_SearchReturnsExactlyTheMatches ==
    Returned =>
        \A i \in DOMAIN search.table :
            LET t == search.table[i] IN
            /\ t.id \in ResultIds =>
                  /\ MeetsQuery(t)
                  /\ CoordinatesPresent(t)
                  /\ DistanceTo(t) <= max_distance_km * 100000
                  /\ DetourOf(t.id) <= max_deviation_minutes * 100000
            /\ ( /\ MeetsQuery(t)
                 /\ CoordinatesPresent(t)
                 /\ DistanceTo(t) <= max_distance_km * 100000
                 /\ DetourKnown(t.id)
                 /\ DetourOf(t.id) <= max_deviation_minutes * 100000 )
                  => t.id \in ResultIds

\* C18: the returned list is in ascending order of
\* 0.7 * distance_km + 0.3 * deviation_minutes, distance_km being the
\* straight-line distance of the trip to the passenger and deviation_minutes
\* its computed detour, and trips of equal score keep the order of the
\* candidates.
Score(e) ==
    7 * haversine(search.args.lat, search.args.lon,
                  search.table[e.id].point_lat, search.table[e.id].point_lon)
      + 3 * DetourOf(e.id)

C18_RankedByScore ==
    Returned =>
        \A i, j \in DOMAIN search.result :
            i < j =>
                \/ Score(search.result[i]) < Score(search.result[j])
                \/ /\ Score(search.result[i]) = Score(search.result[j])
                   /\ search.result[i].id < search.result[j].id

\* C21: the commit of a create_booking inserts exactly one booking, with
\* status pending and the trip and passenger of the call, and leaves every
\* trip (seats_available and status included) and every other booking as
\* they were.
C21_CreateBookingOnlyInserts ==
    [][\A p \in Procs :
         (pc[p] = "cb_commit" /\ Acted(p))
         => /\ res'[p] = "ok"
            /\ Len(bookings') = Len(bookings) + 1
            /\ bookings'[Len(bookings')].status = "pending"
            /\ bookings'[Len(bookings')].trip_id = call[p].trip_id
            /\ bookings'[Len(bookings')].passenger_id = call[p].passenger_id
            /\ \A b \in DOMAIN bookings : bookings'[b] = bookings[b]
            /\ trips' = trips]_vars

\* C21 witness: a create_booking has returned on a trip that already had a
\* confirmed booking: its booking is pending beside the confirmed one, and
\* the only seat taken is the confirmed one's.
C21_Witness ==
    /\ res["p1"] = "ok"
    /\ Len(bookings) = 2
    /\ bookings[1].status = "confirmed"
    /\ bookings[2].status = "pending"
    /\ bookings[2].trip_id = bookings[1].trip_id
    /\ trips[bookings[2].trip_id].seats_available
          = trips[bookings[2].trip_id].seats_total - 1
    /\ trips[bookings[2].trip_id].status = "active"

\* C22: the commit of an update_booking_status to rejected sets the status
\* of its booking to rejected and changes nothing else: every trip
\* (seats_available and status included), every other booking and the other
\* columns of the booking stay as they were.
C22_RejectionChangesOnlyTheBooking ==
    [][\A p \in Procs :
         (pc[p] = "ub_commit" /\ Acted(p) /\ call[p].new_status = "rejected")
         => /\ res'[p] = "ok"
            /\ bookings' = [bookings EXCEPT ![call[p].booking_id].status = "rejected"]
            /\ trips' = trips]_vars

\* C22 witness: a booking has been rejected on a trip that has another,
\* pending booking; the trip is active with all its seats.
C22_Witness ==
    /\ res["p1"] = "ok"
    /\ Len(bookings) = 2
    /\ bookings[1].status = "rejected"
    /\ bookings[2].status = "pending"
    /\ bookings[2].trip_id = bookings[1].trip_id
    /\ trips[bookings[1].trip_id].seats_available = trips[bookings[1].trip_id].seats_total
    /\ trips[bookings[1].trip_id].status = "active"

\* C23: the seats_available of a trip never increases, and it changes only
\* in a step in which a booking of that trip goes from pending to confirmed.
C23_SeatsChangeOnlyOnConfirmation ==
    [][\A t \in DOMAIN trips :
         /\ trips'[t].seats_available <= trips[t].seats_available
         /\ trips'[t].seats_available # trips[t].seats_available
            => \E b \in DOMAIN bookings :
                  /\ bookings[b].trip_id = t
                  /\ bookings[b].status = "pending"
                  /\ bookings'[b].status = "confirmed"]_vars

\* C29: in every reachable state, under any interleaving of create_booking
\* and update_booking_status calls, the seats_available of each trip is its
\* seats_total less the number of its bookings with status confirmed.
C29_SeatsMatchConfirmedBookings ==
    \A t \in DOMAIN trips :
        trips[t].seats_available
          = trips[t].seats_total
              - Cardinality({b \in DOMAIN bookings :
                                bookings[b].trip_id = t /\ bookings[b].status = "confirmed"})

\* C30: in every reachable state an active trip has seats_available > 0 and
\* a filled trip has seats_available = 0, and a trip that is filled never
\* becomes active again.
C30_StatusMatchesSeats ==
    [][/\ \A t \in DOMAIN trips' :
            /\ (trips'[t].status = "active" => trips'[t].seats_available > 0)
            /\ (trips'[t].status = "filled" => trips'[t].seats_available = 0)
       /\ \A t \in DOMAIN trips :
            (trips[t].status = "filled" => trips'[t].status # "active")]_vars

\* Websocket c is subscribed to trip t: its connect for t has returned and
\* no disconnect of c for t has been made since.
SubscribedTo(c, t) == sock_state[c] # "connecting" /\ ws_trip[c] = t /\ <<c, t>> \notin left

\* C26: after any sequence of connect and disconnect calls no trip id of the
\* registry is mapped to an empty list, and a trip id is a key of the
\* registry exactly when at least one websocket is subscribed to it.
C26_NoEmptySubscriberList ==
    /\ \A t \in DOMAIN trip_connections : trip_connections[t] # <<>>
    /\ \A t \in WsTrips :
          t \in DOMAIN trip_connections <=> \E c \in HubConns : SubscribedTo(c, t)

\* C26 witness: the last subscriber of a trip has been disconnected and the
\* trip is no key of the registry, while another trip still has one.
C26_Witness ==
    \E c \in HubConns, t \in WsTrips :
        /\ <<c, t>> \in left
        /\ t \notin DOMAIN trip_connections
        /\ DOMAIN trip_connections # {}

\* The number of times websocket c has received event e.
Received(c, e) == Cardinality({i \in 1..Len(inbox[c]) : inbox[c][i] = e})

\* C24: when a broadcast_to_trip call has returned, every websocket that was
\* subscribed to the trip from the call to the return, and is connected, has
\* received the event exactly once, whichever websockets were subscribed or
\* unsubscribed while the call was suspended in its sends (the event being
\* that of no other broadcast for the trip).
C24_StayingSubscribersReceiveOnce ==
    \A r \in Broadcasts :
        ( /\ bc[r].pc = "done"
          /\ \A q \in Broadcasts \ {r} :
                bc[q].pc = "new" \/ bc[q].trip_id # bc[r].trip_id
                  \/ bc[q].event # bc[r].event )
        => \A c \in bc[r].stay :
              sock_state[c] = "connected" => Received(c, bc[r].event) = 1

\* The number of entries of websocket c in the list of trip t.
Entries(c, t) ==
    IF t \in DOMAIN trip_connections
    THEN Cardinality({i \in 1..Len(trip_connections[t]) : trip_connections[t][i] = c})
    ELSE 0

\* C25: connect is an idempotent add: a connect call for a websocket that is
\* registered for the trip already raises nothing, and no list of the
\* registry holds a websocket more than once.
C25_ConnectIsIdempotentAdd ==
    /\ ~(connect_err.raised # "" /\ connect_err.registered)
    /\ \A c \in HubConns, t \in WsTrips : Entries(c, t) <= 1

\* C28: in sequential use a get_route call that finds a cache row for its
\* four coordinates returns the distance, duration and polyline of that row,
\* calls no provider and adds no row; a call that finds none adds exactly one
\* row before it ends; the rows stored stay as they are and the cache holds
\* at most one row for any four coordinates.
C28_SequentialCacheUse ==
    [][/\ \A p \in Procs :
            /\ (gr_pc[p] = "idle" /\ gr_res'[p] # gr_res[p] /\ gr_res'[p].hit)
               => /\ gr_pc'[p] = "idle"
                  /\ route_cache' = route_cache
                  /\ CachedRows(route_cache, gr_res'[p].q) # <<>>
                  /\ gr_res'[p].value = RowValue(CachedRows(route_cache, gr_res'[p].q)[1])
            /\ (gr_pc[p] = "idle" /\ gr_pc'[p] = "provider")
               => CachedRows(route_cache, gr_call'[p].q) = <<>>
            /\ (gr_pc[p] = "provider" /\ gr_pc'[p] # "provider")
               => gr_pc'[p] = "commit" /\ route_cache' = route_cache
            /\ (gr_pc[p] = "commit" /\ gr_pc'[p] # "commit")
               => /\ Len(route_cache') = Len(route_cache) + 1
                  /\ gr_res'[p].raised = ""
       /\ SubSeq(route_cache', 1, Len(route_cache)) = route_cache
       /\ \A q \in RouteQueries : Len(CachedRows(route_cache', q)) <= 1]_vars

\* The route time get_route has stored for a pair of points.
RouteTime(cache, from_lat, from_lon, to_lat, to_lon) ==
    CachedRows(cache, [from_lat |-> from_lat, from_lon |-> from_lon,
                       to_lat |-> to_lat, to_lon |-> to_lon])[1].duration_minutes

\* The detour of the trip with this id in the table of search s, from the
\* route times of the cache.
DetourByRoutes(cache, s, id) ==
    LET t == s.table[id] IN
    (RouteTime(cache, CampusLat, CampusLon, s.args.lat, s.args.lon)
       + RouteTime(cache, s.args.lat, s.args.lon, t.point_lat, t.point_lon))
      - RouteTime(cache, CampusLat, CampusLon, t.point_lat, t.point_lon)

C31_SampleUnderChannelTrip ==
    [][\A c \in Conns :
         (ws_pc[c] = "commit" /\ ws_pc'[c] # "commit")
         => /\ Len(driver_locations') = Len(driver_locations) + 1
            /\ driver_locations'[Len(driver_locations')].trip_id = ws_trip[c]]_vars

\* C32: under any interleaving of get_route calls, a call made for four
\* coordinates the cache already holds, in one row or in the several rows
\* that concurrent misses have inserted, returns the distance, duration and
\* polyline of a stored row and does not raise.
C32_CachedRouteStillReturned ==
    [][\A p \in Procs :
         ( /\ gr_pc[p] = "idle"
           /\ gr_res'[p] # gr_res[p]
           /\ CachedRows(route_cache, gr_res'[p].q) # <<>> )
         => /\ gr_res'[p].raised = ""
            /\ \E i \in 1..Len(route_cache) :
                  /\ CachedRows(<<route_cache[i]>>, gr_res'[p].q) # <<>>
                  /\ gr_res'[p].value = RowValue(route_cache[i])]_vars

====
